---- MODULE Spec2Model ----
(***************************************************************************)
(* Bilder-Raetsel Quiz server (src/server.js): the global game state, the  *)
(* Socket.IO handlers and the countdown timers, as a state machine.        *)
(*                                                                         *)
(* Conventions of the model                                                *)
(*  - A team id is 't' + six random base-36 digits (server.js:66).  Only   *)
(*    equality of ids and the insertion order of state.teams are used by   *)
(*    the code, so the id of a team is its creation index 1, 2, ...; ids   *)
(*    are assumed not to collide.  teams is the sequence of team records   *)
(*    in insertion order (Object.values order).                            *)
(*  - null / undefined / a missing key is 0 (ids), NoRound, NoCircle.      *)
(*  - A socket of the pool stands for one open connection; after its       *)
(*    disconnect the slot stands for a fresh connection.                   *)
(*  - state.round.teamCircles is a JavaScript object that history entries  *)
(*    reference (server.js:375, 410): round.teamCircles and an entry's     *)
(*    teamCircles are references into heap.                                *)
(*  - last is the event handled by the last step, outbox the events it     *)
(*    emitted, in order; handled counts the events handled so far in the   *)
(*    specifications that bound the length of a run.                       *)
(***************************************************************************)
EXTENDS Integers, Sequences, FiniteSets, TLC

VARIABLES teams, players, rooms, turnTeamId, round, heap, history, timers,
          pending, last, outbox, handled

vars == <<teams, players, rooms, turnTeamId, round, heap, history, timers,
          pending, last, outbox, handled>>

(***************************************************************************)
(* Bounds of the model and program constants                               *)
(***************************************************************************)
MaxTeams == 4            \* server.js:65  teamCount() >= 4
MaxPlayersPerTeam == 2   \* server.js:190 currentPlayers >= 2
AutoBonus == 5           \* server.js:272
MinDuration == 3         \* server.js:303
DefaultDuration == 15    \* server.js:303
MinRadius == 5           \* server.js:304
MaxRadius == 200         \* server.js:304
DefaultRadius == 45      \* server.js:304
DefaultTargetXY == 100   \* server.js:305

MaxShowFullDelay == 5000 \* server.js:383
MinNextDelay == 1500     \* server.js:384
NextBuffer == 2000       \* server.js:384
DefaultDelay == 3000     \* server.js:382
TimeoutMax == 2147483647 \* server.js:383-384: the largest delay setTimeout keeps

MaxHistory == 2          \* history entries kept by the model
MaxRounds == 2           \* rounds started in one run
MaxPoints == 10          \* |points| of a team
MaxPending == 1          \* reveals whose delayed broadcasts are pending
MaxReveals == 1          \* history entries in SpecWinners
MaxHandled == 6          \* events handled in one run of Spec

Sockets == {"s1", "s2", "s3"}
TeamIds == 1..MaxTeams
NoRound == [phase |-> "none", rid |-> 0]
NoCircle == [normalized |-> "none"]
Refs == 1..(MaxHistory + 1)

(***************************************************************************)
(* Names.  The strings a client may send as teamName, with the two string  *)
(* conversions the code applies to them, tabulated on these strings.       *)
(***************************************************************************)
TeamNames == {"a", "A", "b", "c", "d", "e"}

\* String.prototype.trim
Trim(n) == IF n = " a" THEN "a" ELSE n

\* String.prototype.toLowerCase
toLowerCase(n) == IF n = "A" THEN "a" ELSE n

\* a.localeCompare(b) < 0 on the names above: letters in alphabetical order,
\* the lower-case letter before the upper-case one.
NameRank(n) ==
    CASE n = ""   -> 0
      [] n = " a" -> 1
      [] n = "a"  -> 2
      [] n = "A"  -> 3
      [] n = "b"  -> 4
      [] n = "c"  -> 5
      [] n = "d"  -> 6
      [] n = "e"  -> 7

Max(a, b) == IF a >= b THEN a ELSE b
Min(a, b) == IF a <= b THEN a ELSE b

(***************************************************************************)
(* Team registry                                                           *)
(***************************************************************************)
teamCount == Len(teams)

ExistingIds == 1..Len(teams)

\* A key that every JavaScript object inherits ('constructor', 'toString',
\* '__proto__', ...) and that is the id of no team.
InheritedKey == -1

\* Whether state.teams[id] is truthy (server.js:90): state.teams is a plain
\* object, so the lookup finds the teams and the inherited members.
TeamsHas(id) == id \in ExistingIds \/ id = InheritedKey

\* Object.values(state.teams).find(t => t.name.toLowerCase() === name.toLowerCase())
\* 0 when there is none.
FindTeamByName(name) ==
    LET hits == {i \in ExistingIds : toLowerCase(teams[i].name) = toLowerCase(name)}
    IN  IF hits = {} THEN 0 ELSE CHOOSE i \in hits : \A j \in hits : i <= j

\* A limit check that lets a fifth team in.
TeamLimitOffByOne(name) == FindTeamByName(name) = 0 /\ teamCount > MaxTeams

\* Whether getOrCreateTeamByName(name) returns null.
TeamLimitReached(name) == FindTeamByName(name) = 0 /\ teamCount >= MaxTeams

\* The team getOrCreateTeamByName(name) returns when it does not return null.
GetOrCreateId(name) ==
    IF FindTeamByName(name) # 0 THEN FindTeamByName(name) ELSE Len(teams) + 1

\* state.teams after getOrCreateTeamByName(name).
TeamsAfterGetOrCreate(name) ==
    IF FindTeamByName(name) # 0 \/ TeamLimitReached(name)
    THEN teams
    ELSE Append(teams, [name |-> name, points |-> 0])

\* state.turnTeamId after getOrCreateTeamByName(name).
TurnAfterGetOrCreate(name) ==
    IF FindTeamByName(name) # 0 \/ TeamLimitReached(name)
    THEN turnTeamId
    ELSE IF turnTeamId = 0 THEN Len(teams) + 1 ELSE turnTeamId

\* Object.values(state.players).filter(pp => pp.teamId === id)
PlayersOf(id) == {s \in DOMAIN players : players[s] = id}

\* A capacity check that lets a third player in.
TeamIsFullOffByOne(id) == Cardinality(PlayersOf(id)) > MaxPlayersPerTeam

\* currentPlayers >= 2
TeamIsFull(id) == Cardinality(PlayersOf(id)) >= MaxPlayersPerTeam

(***************************************************************************)
(* Outgoing events.  to is "all" (io.emit), a socket (socket.emit) or a    *)
(* room with the sender left out (socket.to(room).emit).                   *)
(***************************************************************************)
ToAll == [kind |-> "all"]
ToSocket(s) == [kind |-> "socket", socket |-> s]
ToRoom(r, s) == [kind |-> "room", room |-> r, except |-> s]

\* The payload of an event that has none.
NoArg == [none |-> TRUE]

Ev(name, to, arg) == [ev |-> name, to |-> to, arg |-> arg]

\* broadcastState(): io.emit('state', {teams, players, turnTeamId})
StateEv(tms, pls, turn) ==
    Ev("state", ToAll, [teams |-> tms, players |-> pls, turnTeamId |-> turn])

\* The event a step handles: its name, the socket it came from ("" for an
\* admin command or a timer) and its payload.
Handled(op, s, arg) == [op |-> op, socket |-> s, arg |-> arg]

(***************************************************************************)
(* Turn helpers                                                            *)
(***************************************************************************)
\* The comparison of the sort in sortedTeamIds; Array.prototype.sort is
\* stable, so teams whose names compare equal keep their insertion order.
SortsBefore(i, j) ==
    \/ NameRank(teams[i].name) < NameRank(teams[j].name)
    \/ NameRank(teams[i].name) = NameRank(teams[j].name) /\ i < j

\* sortedTeamIds(): the ids ordered by name.
sortedTeamIds ==
    [k \in 1..Len(teams) |->
        CHOOSE i \in ExistingIds :
            Cardinality({j \in ExistingIds : SortsBefore(j, i)}) = k - 1]

\* ids.indexOf(id), 0-based, -1 when absent.
IndexOf(ids, id) ==
    IF \E k \in 1..Len(ids) : ids[k] = id
    THEN (CHOOSE k \in 1..Len(ids) : ids[k] = id) - 1
    ELSE -1

\* setTurn(teamId) with the turn team cur: the new turn team.
TurnAfterSetTurnFrom(cur, teamId) ==
    IF teamId = 0 \/ ~TeamsHas(teamId) THEN cur ELSE teamId

\* setTurn(teamId): the new turnTeamId.
TurnAfterSetTurn(teamId) == TurnAfterSetTurnFrom(turnTeamId, teamId)

\* The events setTurn(teamId) emits.
SetTurnEvents(teamId) ==
    IF teamId = 0 \/ ~TeamsHas(teamId)
    THEN <<>>
    ELSE << Ev("turn:update", ToAll, [teamId |-> teamId]), StateEv(teams, players, teamId) >>

\* A rotation that stops at the last team instead of wrapping.
NextTurnNoWrap(cur) ==
    LET ids == sortedTeamIds
    IN  IF Len(ids) = 0 THEN 0
        ELSE IF cur = 0 THEN ids[1]
        ELSE ids[Min(IndexOf(ids, cur) + 1, Len(ids) - 1) + 1]

\* The argument nextTurn() passes to setTurn, from turn team cur; 0 when
\* nextTurn returns without calling setTurn.
NextTurnTargetFrom(cur) ==
    LET ids == sortedTeamIds
    IN  IF Len(ids) = 0 THEN 0
        ELSE IF cur = 0 THEN ids[1]
        ELSE ids[((IndexOf(ids, cur) + 1) % Len(ids)) + 1]

\* The argument prevTurn() passes to setTurn.
PrevTurnTargetFrom(cur) ==
    LET ids == sortedTeamIds
    IN  IF Len(ids) = 0 THEN 0
        ELSE IF cur = 0 THEN ids[1]
        ELSE ids[((IndexOf(ids, cur) - 1 + Len(ids)) % Len(ids)) + 1]

\* turnTeamId after k calls of nextTurn() from turn team cur.
RECURSIVE TurnAfterNextTurns(_, _)
TurnAfterNextTurns(k, cur) ==
    IF k = 0 THEN cur
    ELSE TurnAfterNextTurns(k - 1, TurnAfterSetTurnFrom(cur, NextTurnTargetFrom(cur)))

(***************************************************************************)
(* Initial state: the state object of server.js:51-57, no connection       *)
(* registered, no timer.                                                   *)
(***************************************************************************)
EmptyCircles == [i \in TeamIds |-> NoCircle]
NoLocks == [i \in TeamIds |-> FALSE]

Init ==
    /\ teams = <<>>
    /\ players = [s \in Sockets |-> 0]
    /\ rooms = [s \in Sockets |-> {}]
    /\ turnTeamId = 0
    /\ round = NoRound
    /\ heap = [r \in Refs |-> EmptyCircles]
    /\ history = <<>>
    /\ timers = <<>>
    /\ pending = <<>>
    /\ last = Handled("init", "", NoArg)
    /\ outbox = <<>>
    /\ handled = 0

RoundVars == <<round, heap, history, timers, pending>>

(***************************************************************************)
(* player:join {name, teamName} from socket s                              *)
(***************************************************************************)
PlayerJoin(s, name, teamName) ==
    LET tn == Trim(teamName)
        id == GetOrCreateId(tn)
        tms == TeamsAfterGetOrCreate(tn)
        turn == TurnAfterGetOrCreate(tn)
        pls == [players EXCEPT ![s] = id]
    IN  /\ last' = Handled("player:join", s, [name |-> name, teamName |-> teamName])
        /\ UNCHANGED RoundVars
        /\ IF name = "" \/ teamName = ""
           THEN /\ UNCHANGED <<teams, players, rooms, turnTeamId>>
                /\ outbox' = <<>>
           ELSE IF TeamLimitReached(tn)
           THEN /\ UNCHANGED <<teams, players, rooms, turnTeamId>>
                /\ outbox' = << Ev("toast", ToSocket(s), [text |-> "teams-full"]) >>
           ELSE IF TeamIsFull(id)
           THEN /\ teams' = tms
                /\ turnTeamId' = turn
                /\ UNCHANGED <<players, rooms>>
                /\ outbox' = << Ev("toast", ToSocket(s), [text |-> "team-full"]) >>
           ELSE /\ teams' = tms
                /\ turnTeamId' = turn
                /\ players' = pls
                /\ rooms' = [rooms EXCEPT ![s] = @ \cup {id}]
                /\ outbox' = << Ev("player:accepted", ToSocket(s), [teamId |-> id]),
                                StateEv(tms, pls, turn) >>

(***************************************************************************)
(* disconnect of socket s                                                  *)
(***************************************************************************)
\* A disconnect that drops every player of the leaving player's team.
PlayersAfterTeamLeaves(s) == [x \in Sockets |-> IF players[x] = players[s] THEN 0 ELSE players[x]]

\* delete state.players[socket.id] (server.js:458)
PlayersAfterDisconnect(s) == [players EXCEPT ![s] = 0]

Disconnect(s) ==
    /\ last' = Handled("disconnect", s, NoArg)
    /\ rooms' = [rooms EXCEPT ![s] = {}]
    /\ UNCHANGED <<teams, turnTeamId>>
    /\ UNCHANGED RoundVars
    /\ IF players[s] # 0
       THEN /\ players' = PlayersAfterDisconnect(s)
            /\ outbox' = << StateEv(teams, players', turnTeamId) >>
       ELSE /\ UNCHANGED players
            /\ outbox' = <<>>

(***************************************************************************)
(* admin:setTurn {teamId}, admin:nextTurn, admin:prevTurn                  *)
(***************************************************************************)
AdminSetTurn(teamId) ==
    /\ last' = Handled("admin:setTurn", "", [teamId |-> teamId])
    /\ turnTeamId' = TurnAfterSetTurn(teamId)
    /\ outbox' = SetTurnEvents(teamId)
    /\ UNCHANGED <<teams, players, rooms>>
    /\ UNCHANGED RoundVars

AdminNextTurn ==
    /\ last' = Handled("admin:nextTurn", "", NoArg)
    /\ turnTeamId' = TurnAfterSetTurn(NextTurnTargetFrom(turnTeamId))
    /\ outbox' = SetTurnEvents(NextTurnTargetFrom(turnTeamId))
    /\ UNCHANGED <<teams, players, rooms>>
    /\ UNCHANGED RoundVars

AdminPrevTurn ==
    /\ last' = Handled("admin:prevTurn", "", NoArg)
    /\ turnTeamId' = TurnAfterSetTurn(PrevTurnTargetFrom(turnTeamId))
    /\ outbox' = SetTurnEvents(PrevTurnTargetFrom(turnTeamId))
    /\ UNCHANGED <<teams, players, rooms>>
    /\ UNCHANGED RoundVars

(***************************************************************************)
(* Round construction (admin:startRound and admin:newRound build the same  *)
(* object).  A payload p has imageUrl, duration, radius, target, question; *)
(* a missing or falsy field is "" or 0, a missing target is NoTarget.      *)
(***************************************************************************)
NoTarget == [normalized |-> "none"]

\* Math.max(3, parseInt(duration || 15, 10)) on integers
RoundDuration(d) == Max(MinDuration, IF d = 0 THEN DefaultDuration ELSE d)

\* Math.max(5, Math.min(200, parseInt(radius || 45, 10))) on integers
RoundRadius(r) == Max(MinRadius, Min(MaxRadius, IF r = 0 THEN DefaultRadius ELSE r))

\* (target && target.x != null) ? target : {x:100, y:100}
RoundTarget(t) ==
    IF t # NoTarget
    THEN t
    ELSE [x |-> DefaultTargetXY, y |-> DefaultTargetXY, normalized |-> FALSE]

\* !!(target && target.normalized)
RoundIsNormalized(t) == t # NoTarget /\ t.normalized

\* The references history entries hold after the step, given the history.
RefsHeldBy(h) == {h[k].teamCircles : k \in 1..Len(h)}

\* A fresh teamCircles object ({}): a reference no surviving history entry holds.
FreshRef(h) == CHOOSE r \in Refs : r \notin RefsHeldBy(h) /\
                   \A q \in Refs : q \notin RefsHeldBy(h) => r <= q

\* The round object of server.js:301-313 and 418-429; rid numbers the rounds
\* in the order they are started (the identity of the round object).
FreshRound(p, ref) ==
    [ imageUrl     |-> IF p.imageUrl = "" THEN "/images/sample.jpg" ELSE p.imageUrl,
      duration     |-> RoundDuration(p.duration),
      radius       |-> RoundRadius(p.radius),
      target       |-> RoundTarget(p.target),
      isNormalized |-> RoundIsNormalized(p.target),
      question     |-> p.question,
      phase        |-> "countdown",
      teamCircles  |-> ref,
      teamLocked   |-> NoLocks,
      revealClicks |-> FALSE,
      rid          |-> round.rid + 1 ]

\* The round:config event.
ConfigEv(to, R) ==
    Ev("round:config", to,
       [imageUrl |-> R.imageUrl, duration |-> R.duration, radius |-> R.radius,
        question |-> R.question, target |-> R.target, isNormalized |-> R.isNormalized])

\* The countdown interval created for round R: its closure variable t and the
\* round it was created for.
FreshTimer(R) == [t |-> R.duration, rid |-> R.rid]

\* The teamCircles object of the active round.
TeamCircles == heap[round.teamCircles]

\* A history entry; ts (Date.now()) is left out.  rid names the round the
\* entry was taken from.
HistoryEntry(R, winners) ==
    [ question |-> R.question, imageUrl |-> R.imageUrl, winners |-> winners,
      teamCircles |-> R.teamCircles, target |-> R.target, radius |-> R.radius,
      rid |-> R.rid ]

\* A history h as the admin:history event serialises it: each entry with the
\* referenced teamCircles object of heap hp by value.
HistoryValue(h, hp) == [k \in 1..Len(h) |-> [h[k] EXCEPT !.teamCircles = hp[h[k].teamCircles]]]

(***************************************************************************)
(* Hit check                                                               *)
(***************************************************************************)
\* A hit check that misses the circle at distance exactly radius.
isPixelHitStrict(c, t, r) ==
    /\ c # [normalized |-> "none"]
    /\ (c.x - t.x) * (c.x - t.x) + (c.y - t.y) * (c.y - t.y) < r * r

\* isPixelHit(clickXY, targetXY, radiusPx): Math.hypot(dx, dy) <= radius.
\* On integer coordinates and an integer radius >= 0 the comparison of the
\* distance is the comparison of the squares.
isPixelHit(c, t, r) ==
    /\ c # NoCircle
    /\ (c.x - t.x) * (c.x - t.x) + (c.y - t.y) * (c.y - t.y) <= r * r

\* computeWinnersFromTeamCircles() on round R with circles tc; the winners
\* array as the set of its elements.
computeWinnersFromTeamCircles(R, tc) ==
    IF R = NoRound THEN {}
    ELSE IF R.isNormalized THEN {}
    ELSE {i \in TeamIds : /\ tc[i] # NoCircle
                          /\ ~tc[i].normalized
                          /\ isPixelHit(tc[i], R.target, R.radius)}

(***************************************************************************)
(* The turn gate of the three team handlers (server.js:218, 246, 284):     *)
(* whether a player of team p is turned away.                              *)
(***************************************************************************)
\* A gate that turns nobody away.
NoTurnGate(p) == turnTeamId # 0 /\ p = 0

NotYourTurn(p) == turnTeamId # 0 /\ p # turnTeamId

\* A lock looked up under a key that is never set.
LockNeverFound(p) == round.teamLocked[p] /\ p = 0

\* R.teamLocked[p.teamId] in team:setCircle (server.js:228)
LockedAgainstChange(p) == round.teamLocked[p]

(***************************************************************************)
(* team:setCircle {x, y, normalized} from socket s                         *)
(***************************************************************************)
TeamSetCircle(s, c) ==
    LET p == players[s] IN
    /\ last' = Handled("team:setCircle", s, c)
    /\ UNCHANGED <<teams, players, rooms, turnTeamId, round, history, timers, pending>>
    /\ IF p = 0 \/ round = NoRound
       THEN /\ UNCHANGED heap
            /\ outbox' = <<>>
       ELSE IF NotYourTurn(p)
       THEN /\ UNCHANGED heap
            /\ outbox' = << Ev("toast", ToSocket(s), [text |-> "not-your-turn"]) >>
       ELSE IF LockedAgainstChange(p)
       THEN /\ UNCHANGED heap
            /\ outbox' = << Ev("toast", ToSocket(s), [text |-> "already-locked"]) >>
       ELSE /\ heap' = [heap EXCEPT ![round.teamCircles][p] = c]
            /\ outbox' = << Ev("team:circlePreview", ToRoom(p, s), c),
                            Ev("admin:teamCircleSet", ToAll, [teamId |-> p]) >>

(***************************************************************************)
(* team:confirm from socket s                                              *)
(***************************************************************************)
\* Whether the confirm of team p awards the automatic bonus.
ConfirmAwardsBonus(p) ==
    /\ ~round.isNormalized
    /\ isPixelHit(TeamCircles[p], round.target, round.radius)

\* A lock check that lets a locked team confirm again.
LockOverlooked(p) == round.teamLocked[p] /\ p = 0

\* if(R.teamLocked[p.teamId]) return; in team:confirm (server.js:259)
AlreadyLocked(p) == round.teamLocked[p]

TeamConfirm(s) ==
    LET p == players[s] IN
    /\ last' = Handled("team:confirm", s, NoArg)
    /\ UNCHANGED <<players, rooms, turnTeamId, heap, history, timers, pending>>
    /\ IF p = 0 \/ round = NoRound
       THEN /\ UNCHANGED <<teams, round>>
            /\ outbox' = <<>>
       ELSE IF NotYourTurn(p)
       THEN /\ UNCHANGED <<teams, round>>
            /\ outbox' = << Ev("toast", ToSocket(s), [text |-> "not-your-turn"]) >>
       ELSE IF TeamCircles[p] = NoCircle
       THEN /\ UNCHANGED <<teams, round>>
            /\ outbox' = << Ev("toast", ToSocket(s), [text |-> "set-position-first"]) >>
       ELSE IF AlreadyLocked(p)
       THEN /\ UNCHANGED <<teams, round>>
            /\ outbox' = <<>>
       ELSE /\ round' = [round EXCEPT !.teamLocked[p] = TRUE]
            /\ IF ConfirmAwardsBonus(p)
               THEN /\ teams[p].points + AutoBonus <= MaxPoints
                    /\ teams' = [teams EXCEPT ![p].points = @ + AutoBonus]
                    /\ outbox' = << Ev("admin:teamLocked", ToAll, [teamId |-> p]),
                                    StateEv(teams', players, turnTeamId),
                                    Ev("score:autoBonus", ToAll, [teamId |-> p, delta |-> AutoBonus]) >>
               ELSE /\ UNCHANGED teams
                    /\ outbox' = << Ev("admin:teamLocked", ToAll, [teamId |-> p]) >>

(***************************************************************************)
(* team:unconfirm from socket s                                            *)
(***************************************************************************)
TeamUnconfirm(s) ==
    LET p == players[s] IN
    /\ last' = Handled("team:unconfirm", s, NoArg)
    /\ UNCHANGED <<teams, players, rooms, turnTeamId, heap, history, timers, pending>>
    /\ IF p = 0 \/ round = NoRound
       THEN /\ UNCHANGED round
            /\ outbox' = <<>>
       ELSE IF NotYourTurn(p)
       THEN /\ UNCHANGED round
            /\ outbox' = <<>>
       ELSE IF round.teamLocked[p]
       THEN /\ round' = [round EXCEPT !.teamLocked[p] = FALSE]
            /\ outbox' = << Ev("admin:teamUnlocked", ToAll, [teamId |-> p]) >>
       ELSE /\ UNCHANGED round
            /\ outbox' = <<>>

(***************************************************************************)
(* admin:startRound {imageUrl, duration, radius, target, question}         *)
(***************************************************************************)
TickEv(t, rid) == Ev("round:tick", ToAll, [t |-> t, rid |-> rid])

AdminStartRound(p) ==
    LET ref == FreshRef(history)
        R == FreshRound(p, ref)
    IN  /\ round.rid < MaxRounds
        /\ last' = Handled("admin:startRound", "", p)
        /\ round' = R
        /\ heap' = [heap EXCEPT ![ref] = EmptyCircles]
        /\ timers' = Append(timers, FreshTimer(R))
        /\ outbox' = << ConfigEv(ToAll, R), TickEv(R.duration, R.rid) >>
        /\ UNCHANGED <<teams, players, rooms, turnTeamId, history, pending>>

(***************************************************************************)
(* admin:newRound {imageUrl, duration, radius, target, question}           *)
(***************************************************************************)
\* A newRound that forgets the closing push.
HistoryWithoutPush == history

\* A newRound that evaluates the hits of the round it closes.
HistoryWithWinners ==
    IF round # NoRound
    THEN Append(history, HistoryEntry(round, computeWinnersFromTeamCircles(round, TeamCircles)))
    ELSE history

\* state.history after the closing push of admin:newRound.
HistoryAfterNewRound ==
    IF round # NoRound THEN Append(history, HistoryEntry(round, {})) ELSE history

AdminNewRound(p) ==
    LET h == HistoryAfterNewRound
        ref == FreshRef(h)
        R == FreshRound(p, ref)
    IN  /\ round.rid < MaxRounds
        /\ Len(h) <= MaxHistory
        /\ last' = Handled("admin:newRound", "", p)
        /\ history' = h
        /\ round' = R
        /\ heap' = [heap EXCEPT ![ref] = EmptyCircles]
        /\ timers' = Append(timers, FreshTimer(R))
        /\ outbox' = (IF round # NoRound
                      THEN << Ev("admin:history", ToAll, [entries |-> HistoryValue(h, heap)]) >>
                      ELSE <<>>)
                     \o << ConfigEv(ToAll, R), TickEv(R.duration, R.rid) >>
        /\ UNCHANGED <<teams, players, rooms, turnTeamId, pending>>

(***************************************************************************)
(* The countdown interval callback (server.js:327-337, 441-451).  The      *)
(* intervals all have the period 1000 ms, so they fire in the order of     *)
(* their creation, round robin: timers is the queue of the live intervals, *)
(* the head is the next to fire.                                           *)
(***************************************************************************)
\* A callback that takes the running countdown for its end.
TimerStopsInCountdown == round = NoRound \/ round.phase = "countdown"

\* Whether the callback stops without acting.
TimerStops == round = NoRound \/ round.phase # "countdown"

TimerFire ==
    LET tm == Head(timers)
        t == tm.t - 1
    IN  /\ timers # <<>>
        /\ last' = Handled("timer", "", [rid |-> tm.rid])
        /\ UNCHANGED <<teams, players, rooms, turnTeamId, heap, history, pending>>
        /\ IF TimerStops
           THEN /\ timers' = Tail(timers)
                /\ UNCHANGED round
                /\ outbox' = <<>>
           ELSE IF t <= 0
           THEN /\ timers' = Tail(timers)
                /\ round' = [round EXCEPT !.phase = "dark"]
                /\ outbox' = << TickEv(t, tm.rid), Ev("round:dark", ToAll, [rid |-> tm.rid]) >>
           ELSE /\ timers' = Append(Tail(timers), [tm EXCEPT !.t = t])
                /\ UNCHANGED round
                /\ outbox' = << TickEv(t, tm.rid) >>

(***************************************************************************)
(* admin:revealTeamCircles, admin:hideTeamCircles, admin:clearTeamCircles  *)
(***************************************************************************)
AdminRevealTeamCircles ==
    /\ last' = Handled("admin:revealTeamCircles", "", NoArg)
    /\ UNCHANGED <<teams, players, rooms, turnTeamId, heap, history, timers, pending>>
    /\ IF round = NoRound
       THEN /\ UNCHANGED round
            /\ outbox' = <<>>
       ELSE /\ round' = [round EXCEPT !.revealClicks = TRUE]
            /\ outbox' = << Ev("round:revealTeamCircles", ToAll,
                               [reveal |-> TRUE, teamCircles |-> TeamCircles]) >>

AdminHideTeamCircles ==
    /\ last' = Handled("admin:hideTeamCircles", "", NoArg)
    /\ UNCHANGED <<teams, players, rooms, turnTeamId, heap, history, timers, pending>>
    /\ IF round = NoRound
       THEN /\ UNCHANGED round
            /\ outbox' = <<>>
       ELSE /\ round' = [round EXCEPT !.revealClicks = FALSE]
            /\ outbox' = << Ev("round:revealTeamCircles", ToAll, [reveal |-> FALSE]) >>

AdminClearTeamCircles ==
    LET ref == FreshRef(history) IN
    /\ last' = Handled("admin:clearTeamCircles", "", NoArg)
    /\ UNCHANGED <<teams, players, rooms, turnTeamId, history, timers, pending>>
    /\ IF round = NoRound
       THEN /\ UNCHANGED <<round, heap>>
            /\ outbox' = <<>>
       ELSE /\ round' = [round EXCEPT !.teamCircles = ref, !.teamLocked = NoLocks]
            /\ heap' = [heap EXCEPT ![ref] = EmptyCircles]
            /\ outbox' = << Ev("round:clearTeamCircles", ToAll, NoArg) >>

(***************************************************************************)
(* admin:revealArea {autoNext, delayMs}                                    *)
(***************************************************************************)
\* Math.max(0, parseInt(delayMs || 3000, 10)) on integers
RevealDelay(delayMs) == Max(0, IF delayMs = 0 THEN DefaultDelay ELSE delayMs)

\* The two setTimeout calls of server.js:383-384: the delays of round:showFull
\* and admin:requestNext, and which of the two has fired.
\* The delay setTimeout(callback, d) waits: Node sets a delay below 1 or above
\* 2^31 - 1 to 1.
TimeoutDelay(d) == IF d < 1 \/ d > TimeoutMax THEN 1 ELSE d

\* TimeoutDelay(a + b) for b >= 0, without a sum above 2^31 - 1.
TimeoutDelaySum(a, b) == IF a > TimeoutMax - b THEN 1 ELSE TimeoutDelay(a + b)

FreshPending(ms) ==
    [ showAt |-> TimeoutDelay(Min(ms, MaxShowFullDelay)),
      nextAt |-> TimeoutDelaySum(Max(ms, MinNextDelay), NextBuffer),
      shown |-> FALSE, requested |-> FALSE ]

AdminRevealArea(autoNext, delayMs) ==
    LET winners == computeWinnersFromTeamCircles(round, TeamCircles)
        h == Append(history, HistoryEntry(round, winners))
    IN  /\ last' = Handled("admin:revealArea", "", [autoNext |-> autoNext, delayMs |-> delayMs])
        /\ UNCHANGED <<teams, players, rooms, turnTeamId, round, heap, timers>>
        /\ IF round = NoRound
           THEN /\ UNCHANGED <<history, pending>>
                /\ outbox' = <<>>
           ELSE /\ Len(history) < MaxHistory
                /\ history' = h
                /\ outbox' = << Ev("round:revealArea", ToAll,
                                   [target |-> round.target, radius |-> round.radius,
                                    isNormalized |-> round.isNormalized]),
                                Ev("admin:history", ToAll, [entries |-> HistoryValue(h, heap)]) >>
                /\ IF autoNext
                   THEN /\ Len(pending) < MaxPending
                        /\ pending' = Append(pending, FreshPending(RevealDelay(delayMs)))
                   ELSE UNCHANGED pending

\* The two timeouts of one reveal fire in the order of their delays, the
\* first created first when the delays are equal.
RemoveAt(q, k) == [i \in 1..(Len(q) - 1) |-> IF i < k THEN q[i] ELSE q[i + 1]]

Settle(q, k, e) == IF e.shown /\ e.requested THEN RemoveAt(q, k) ELSE [q EXCEPT ![k] = e]

ShowFullTimeout(k) ==
    /\ k \in 1..Len(pending)
    /\ ~pending[k].shown
    /\ pending[k].showAt <= pending[k].nextAt \/ pending[k].requested
    /\ pending' = Settle(pending, k, [pending[k] EXCEPT !.shown = TRUE])
    /\ last' = Handled("timeout:showFull", "", NoArg)
    /\ outbox' = << Ev("round:showFull", ToAll, NoArg) >>
    /\ UNCHANGED <<teams, players, rooms, turnTeamId, round, heap, history, timers>>

RequestNextTimeout(k) ==
    /\ k \in 1..Len(pending)
    /\ ~pending[k].requested
    /\ pending[k].nextAt < pending[k].showAt \/ pending[k].shown
    /\ pending' = Settle(pending, k, [pending[k] EXCEPT !.requested = TRUE])
    /\ last' = Handled("timeout:requestNext", "", NoArg)
    /\ outbox' = << Ev("admin:requestNext", ToAll, NoArg) >>
    /\ UNCHANGED <<teams, players, rooms, turnTeamId, round, heap, history, timers>>

(***************************************************************************)
(* admin:showFull, admin:adjustPoints {teamId, delta}                      *)
(***************************************************************************)
AdminShowFull ==
    /\ last' = Handled("admin:showFull", "", NoArg)
    /\ outbox' = IF round = NoRound THEN <<>> ELSE << Ev("round:showFull", ToAll, NoArg) >>
    /\ UNCHANGED <<teams, players, rooms, turnTeamId>>
    /\ UNCHANGED RoundVars

AdminAdjustPoints(teamId, delta) ==
    /\ last' = Handled("admin:adjustPoints", "", [teamId |-> teamId, delta |-> delta])
    /\ UNCHANGED <<players, rooms, turnTeamId>>
    /\ UNCHANGED RoundVars
    /\ IF ~TeamsHas(teamId)
       THEN /\ UNCHANGED teams
            /\ outbox' = <<>>
       ELSE IF teamId = InheritedKey
       THEN /\ UNCHANGED teams
            /\ outbox' = << StateEv(teams, players, turnTeamId) >>
       ELSE /\ teams[teamId].points + delta <= MaxPoints
            /\ teams[teamId].points + delta >= -MaxPoints
            /\ teams' = [teams EXCEPT ![teamId].points = @ + delta]
            /\ outbox' = << StateEv(teams', players, turnTeamId) >>

(***************************************************************************)
(* player:hello and admin:hello from socket s: a resync, no state change   *)
(***************************************************************************)
HelloEvents(s) ==
    << Ev("state", ToSocket(s),
          [teams |-> teams, players |-> players, turnTeamId |-> turnTeamId]),
       Ev("turn:update", ToSocket(s), [teamId |-> turnTeamId]) >>

PlayerHello(s) ==
    /\ last' = Handled("player:hello", s, NoArg)
    /\ UNCHANGED <<teams, players, rooms, turnTeamId>>
    /\ UNCHANGED RoundVars
    /\ outbox' =
         HelloEvents(s)
         \o (IF round = NoRound THEN <<>> ELSE << ConfigEv(ToSocket(s), round) >>)
         \o (IF round # NoRound /\ round.phase = "dark"
             THEN << Ev("round:dark", ToSocket(s), [rid |-> round.rid]) >> ELSE <<>>)
         \o (IF round # NoRound /\ round.revealClicks
             THEN << Ev("round:revealTeamCircles", ToSocket(s),
                        [reveal |-> TRUE, teamCircles |-> TeamCircles]) >>
             ELSE <<>>)

AdminHello(s) ==
    /\ last' = Handled("admin:hello", s, NoArg)
    /\ UNCHANGED <<teams, players, rooms, turnTeamId>>
    /\ UNCHANGED RoundVars
    /\ outbox' =
         HelloEvents(s)
         \o << Ev("admin:history", ToSocket(s), [entries |-> HistoryValue(history, heap)]) >>
         \o (IF round = NoRound THEN <<>> ELSE << ConfigEv(ToSocket(s), round) >>)

(***************************************************************************)
(* SpecTeams: one connection joins teams under six names, with the turn    *)
(* commands.  SpecPlayers: three connections join and leave teams under    *)
(* few names.                                                              *)
(***************************************************************************)
PlayerNames == {"", "p"}
OneSocket == {"s1"}
TwoSockets == {"s1", "s2"}
FewNames == {"", " a", "a", "A", "b"}

NextTeams ==
    \/ \E s \in OneSocket, tn \in TeamNames : PlayerJoin(s, "p", tn) /\ UNCHANGED handled
    \/ \E id \in {0, 2, MaxTeams + 1, InheritedKey} : AdminSetTurn(id) /\ UNCHANGED handled
    \/ AdminNextTurn /\ UNCHANGED handled
    \/ AdminPrevTurn /\ UNCHANGED handled

SpecTeams == Init /\ [][NextTeams]_vars

NextPlayers ==
    \/ \E s \in Sockets, n \in PlayerNames, tn \in FewNames : PlayerJoin(s, n, tn) /\ UNCHANGED handled
    \/ \E s \in Sockets : Disconnect(s) /\ UNCHANGED handled
    \/ AdminNextTurn /\ UNCHANGED handled

SpecPlayers == Init /\ [][NextPlayers]_vars

(***************************************************************************)
(* C4: at most 4 teams exist, no two with names equal ignoring case, and a *)
(* player:join naming a fifth distinct team name leaves teams, players and *)
(* turnTeamId unchanged.                                                   *)
(***************************************************************************)
NamesTaken == {toLowerCase(teams[i].name) : i \in ExistingIds}

C4_CapInv ==
    /\ Len(teams) <= 4
    /\ \A i, j \in ExistingIds :
          i # j => toLowerCase(teams[i].name) # toLowerCase(teams[j].name)

C4_FifthNameStep ==
    ( /\ last'.op = "player:join"
      /\ last'.arg.name # ""
      /\ last'.arg.teamName # ""
      /\ Len(teams) = 4
      /\ toLowerCase(Trim(last'.arg.teamName)) \notin NamesTaken )
    => /\ teams' = teams
       /\ players' = players
       /\ turnTeamId' = turnTeamId

\* C4: the cap and the uniqueness hold in every state, and every step
\* handles a join under a fifth name without a change.
C4_TeamCap == [](C4_CapInv) /\ [][C4_FifthNameStep]_vars

\* A join under a fifth name has been handled while four teams exist.
C4_Witness ==
    /\ last.op = "player:join"
    /\ Len(teams) = 4
    /\ toLowerCase(Trim(last.arg.teamName)) \notin NamesTaken
    /\ players[last.socket] # 0

(***************************************************************************)
(* C5: every team has at most 2 registered players, and a player:join to a *)
(* team that has 2 players leaves the players map unchanged.               *)
(***************************************************************************)
C5_PlayerInv == \A id \in ExistingIds : Cardinality(PlayersOf(id)) <= 2

C5_FullTeamStep ==
    ( /\ last'.op = "player:join"
      /\ last'.arg.name # ""
      /\ last'.arg.teamName # ""
      /\ FindTeamByName(Trim(last'.arg.teamName)) # 0
      /\ Cardinality(PlayersOf(FindTeamByName(Trim(last'.arg.teamName)))) = 2 )
    => players' = players

\* C5: no team ever has more than 2 players, and every step handles a join
\* to a full team without a change of players.
C5_PlayerCap == [](C5_PlayerInv) /\ [][C5_FullTeamStep]_vars

\* A third connection has been turned away from a team with two players,
\* which it named in another spelling.
C5_Witness ==
    /\ last.op = "player:join"
    /\ last.arg.name # ""
    /\ last.arg.teamName \in {" a", "A"}
    /\ FindTeamByName(Trim(last.arg.teamName)) # 0
    /\ Cardinality(PlayersOf(FindTeamByName(Trim(last.arg.teamName)))) = 2
    /\ players[last.socket] # FindTeamByName(Trim(last.arg.teamName))

(***************************************************************************)
(* C6: with n >= 1 teams and a turn team set, n calls of nextTurn return   *)
(* turnTeamId to the team they started from, and within these n calls      *)
(* every team is the turn team exactly once.                               *)
(***************************************************************************)
C6_TurnCycle ==
    turnTeamId \in ExistingIds =>
        LET n == Len(teams)
        IN  /\ TurnAfterNextTurns(n, turnTeamId) = turnTeamId
            /\ {TurnAfterNextTurns(k, turnTeamId) : k \in 0..(n - 1)} = ExistingIds

\* nextTurn has wrapped around from the last of four teams, created in an
\* order that is not the order of their names.
C6_Witness ==
    /\ last.op = "admin:nextTurn"
    /\ Len(teams) = 4
    /\ teams[1].name = "e"
    /\ turnTeamId = sortedTeamIds[1]
    /\ turnTeamId # 1

(***************************************************************************)
(* Inputs of the round specifications                                      *)
(***************************************************************************)
\* A pixel round: target (100,100), radius 5, duration 3.
PixelPayload ==
    [ imageUrl |-> "img", duration |-> 3, radius |-> 5, question |-> "q",
      target |-> [x |-> 100, y |-> 100, normalized |-> FALSE] ]

\* Every field missing or out of range: the defaults and the clamps apply.
DefaultPayload ==
    [ imageUrl |-> "", duration |-> 1, radius |-> 0, question |-> "",
      target |-> NoTarget ]

\* A normalized round, duration 4.
NormPayload ==
    [ imageUrl |-> "img2", duration |-> 4, radius |-> 300, question |-> "q2",
      target |-> [x |-> 100, y |-> 100, normalized |-> TRUE] ]

\* Distance 5 from (100,100), distance > 5 and < 45, and a normalized guess
\* on the target.
CircleOn == [x |-> 103, y |-> 104, normalized |-> FALSE]
CircleOff == [x |-> 103, y |-> 105, normalized |-> FALSE]
CircleNorm == [x |-> 100, y |-> 100, normalized |-> TRUE]

\* The first connection joins team a, the second team b.
JoinPairs == { <<"s1", "a">>, <<"s2", "b">> }

(***************************************************************************)
(* SpecTimers: rounds are started and replaced while countdown intervals   *)
(* are running.                                                            *)
(***************************************************************************)
NextTimers ==
    \/ \E p \in {DefaultPayload, NormPayload} : AdminStartRound(p) /\ UNCHANGED handled
    \/ \E p \in {DefaultPayload, NormPayload} : AdminNewRound(p) /\ UNCHANGED handled
    \/ TimerFire /\ UNCHANGED handled

SpecTimers == Init /\ [][NextTimers]_vars

(***************************************************************************)
(* C1: a countdown timer never acts on a round it was not started for: a   *)
(* timer callback that emits round:tick or round:dark (and so may have set *)
(* the phase to 'dark') is the timer of the active round.                  *)
(***************************************************************************)
\* C1: a timer callback that emits round:tick or round:dark is the timer of
\* the active round.
C1_NoStaleTimerEffect ==
    (last.op = "timer" /\ outbox # <<>>) => last.arg.rid = round.rid

(***************************************************************************)
(* SpecGuess: two connections join a team each, the turn moves, a pixel    *)
(* round is started and the teams set, confirm and unconfirm circles.      *)
(***************************************************************************)
NextGuess ==
    \/ \E pr \in JoinPairs : PlayerJoin(pr[1], "p", pr[2]) /\ UNCHANGED handled
    \/ AdminNextTurn /\ UNCHANGED handled
    \/ AdminStartRound(PixelPayload) /\ UNCHANGED handled
    \/ \E s \in TwoSockets, c \in {CircleOn, CircleOff} : TeamSetCircle(s, c) /\ UNCHANGED handled
    \/ \E s \in TwoSockets : TeamConfirm(s) /\ UNCHANGED handled
    \/ \E s \in TwoSockets : TeamUnconfirm(s) /\ UNCHANGED handled

SpecGuess == Init /\ [][NextGuess]_vars

\* The points of the teams.
Points == [i \in ExistingIds |-> teams[i].points]

TeamOps == {"team:setCircle", "team:confirm", "team:unconfirm"}

(***************************************************************************)
(* C2: while a round is active and a turn team is set, a team:setCircle,   *)
(* team:confirm or team:unconfirm of a player whose team is not the turn   *)
(* team leaves teamCircles, teamLocked and the points of all teams         *)
(* unchanged.                                                              *)
(***************************************************************************)
C2_GatedStep ==
    ( /\ round # NoRound
      /\ turnTeamId # 0
      /\ last'.op \in TeamOps
      /\ players[last'.socket] # 0
      /\ players[last'.socket] # turnTeamId )
    => /\ round' # NoRound
       /\ TeamCircles' = TeamCircles
       /\ round'.teamLocked = round.teamLocked
       /\ Points' = Points

\* C2: every step is a gated step: a team handler of a player off the turn
\* changes neither teamCircles nor teamLocked nor points.
C2_TurnGating == [][C2_GatedStep]_vars

\* A team that has set its circle and lost the turn has sent team:confirm.
C2_Witness ==
    /\ last.op = "team:confirm"
    /\ round # NoRound
    /\ players[last.socket] # 0
    /\ players[last.socket] # turnTeamId
    /\ TeamCircles[players[last.socket]] # NoCircle
    /\ ~round.teamLocked[players[last.socket]]

(***************************************************************************)
(* SpecHistory: one team sets circles in pixel and normalized rounds,      *)
(* which the admin reveals, clears, restarts and replaces.                 *)
(***************************************************************************)
NextHistory ==
    \/ PlayerJoin("s1", "p", "a") /\ UNCHANGED handled
    \/ \E p \in {PixelPayload, NormPayload} : AdminStartRound(p) /\ UNCHANGED handled
    \/ \E p \in {PixelPayload, NormPayload} : AdminNewRound(p) /\ UNCHANGED handled
    \/ \E c \in {CircleOn, CircleOff} : TeamSetCircle("s1", c) /\ UNCHANGED handled
    \/ AdminClearTeamCircles /\ UNCHANGED handled
    \/ AdminRevealTeamCircles /\ UNCHANGED handled
    \/ AdminRevealArea(FALSE, 0) /\ UNCHANGED handled

SpecHistory == Init /\ [][NextHistory]_vars

(***************************************************************************)
(* SpecWinners: two teams set circles in a pixel or a normalized round and *)
(* the admin reveals the area.  The admin starts one round in a run and    *)
(* may reveal it again after the circles have changed.                     *)
(***************************************************************************)
NextWinners ==
    \/ \E pr \in JoinPairs : PlayerJoin(pr[1], "p", pr[2]) /\ UNCHANGED handled
    \/ AdminNextTurn /\ UNCHANGED handled
    \/ \E p \in {PixelPayload, NormPayload} : AdminStartRound(p) /\ round = NoRound /\ UNCHANGED handled
    \/ \E s \in TwoSockets, c \in {CircleOn, CircleOff, CircleNorm} : TeamSetCircle(s, c) /\ UNCHANGED handled
    \/ AdminRevealArea(FALSE, 0) /\ Len(history') <= MaxReveals /\ UNCHANGED handled

SpecWinners == Init /\ [][NextWinners]_vars

\* The newest history entry.
LastEntry == history[Len(history)]

\* Whether entry e of history, read in heap hp, is a snapshot of round R
\* with the circles tc.
IsSnapshot(e, hp, R, tc) ==
    /\ e.question = R.question
    /\ e.imageUrl = R.imageUrl
    /\ e.target = R.target
    /\ e.radius = R.radius
    /\ hp[e.teamCircles] = tc

\* Whether round R, with the circles tc, is freshly installed.
IsFreshRound(R, tc) ==
    /\ R # NoRound
    /\ R.phase = "countdown"
    /\ tc = EmptyCircles
    /\ R.teamLocked = NoLocks

(***************************************************************************)
(* C7 as stated: every admin:startRound and every admin:newRound handled   *)
(* while a round is in progress appends a snapshot of that round to        *)
(* history and installs a round with phase 'countdown' and empty           *)
(* teamCircles and teamLocked.                                             *)
(***************************************************************************)
C7_OriginalStep ==
    (last'.op \in {"admin:startRound", "admin:newRound"} /\ round # NoRound)
    => /\ Len(history') = Len(history) + 1
       /\ IsSnapshot(LastEntry', heap', round, TeamCircles)
       /\ IsFreshRound(round', TeamCircles')

\* C7 as stated, for every step.
C7_Original == [][C7_OriginalStep]_vars

(***************************************************************************)
(* C7 amended: every start of a new round while a round is in progress     *)
(* installs a round with phase 'countdown' and empty teamCircles and       *)
(* teamLocked; admin:newRound first appends a snapshot of the round in     *)
(* progress to history, admin:startRound leaves history as it is.          *)
(***************************************************************************)
C7_AmendedStep ==
    /\ (last'.op = "admin:newRound" /\ round # NoRound)
       => /\ Len(history') = Len(history) + 1
          /\ IsSnapshot(LastEntry', heap', round, TeamCircles)
          /\ IsFreshRound(round', TeamCircles')
    /\ (last'.op = "admin:startRound" /\ round # NoRound)
       => /\ history' = history
          /\ IsFreshRound(round', TeamCircles')

\* C7 amended, for every step.
C7_Amended == [][C7_AmendedStep]_vars

\* admin:startRound has replaced a round in progress, and history is still
\* empty.
C7_Witness ==
    /\ last.op = "admin:startRound"
    /\ round.rid = 2
    /\ history = <<>>
    /\ players["s1"] = 1

(***************************************************************************)
(* C8: admin:newRound handled while a round is active appends exactly one  *)
(* history entry, which carries the question, image, target, radius and    *)
(* teamCircles of the closed round and winners = [], and leaves a round    *)
(* with phase 'countdown', empty teamCircles and teamLocked and            *)
(* revealClicks = false; handled with no active round it appends nothing.  *)
(***************************************************************************)
C8_NewRoundStep ==
    last'.op = "admin:newRound" =>
        IF round # NoRound
        THEN /\ Len(history') = Len(history) + 1
             /\ SubSeq(history', 1, Len(history)) = history
             /\ IsSnapshot(LastEntry', heap', round, TeamCircles)
             /\ LastEntry'.winners = {}
             /\ IsFreshRound(round', TeamCircles')
             /\ round'.revealClicks = FALSE
        ELSE /\ history' = history
             /\ IsFreshRound(round', TeamCircles')

\* C8: every admin:newRound step closes the active round into exactly one
\* entry with winners = [] and installs a fresh round.
C8_NewRound == [][C8_NewRoundStep]_vars

\* admin:newRound has closed a pixel round of radius 5 in which a circle at
\* distance 5 from the target was recorded.
C8_Witness ==
    /\ last.op = "admin:newRound"
    /\ round.rid = 2
    /\ Len(history) = 1
    /\ LastEntry.radius = 5
    /\ LastEntry.target = [x |-> 100, y |-> 100, normalized |-> FALSE]
    /\ heap[LastEntry.teamCircles][1] = CircleOn
    /\ LastEntry.winners = {}

(***************************************************************************)
(* C9: history is append-only and its entries are immutable: every step    *)
(* keeps the entries it finds, each with the same value of every field,    *)
(* the teamCircles snapshot included.                                      *)
(***************************************************************************)
C9_AppendOnlyStep ==
    /\ Len(history') >= Len(history)
    /\ SubSeq(HistoryValue(history', heap'), 1, Len(history)) = HistoryValue(history, heap)

\* C9: every step keeps the value of every entry history holds.
C9_AppendOnly == [][C9_AppendOnlyStep]_vars

(***************************************************************************)
(* C10: the winners recorded by admin:revealArea are, in a pixel round,    *)
(* exactly the teams with a recorded non-normalized circle whose distance  *)
(* to the target is <= radius, and no team in a normalized round.          *)
(***************************************************************************)
SquaredDistance(c, t) == (c.x - t.x) * (c.x - t.x) + (c.y - t.y) * (c.y - t.y)

ExpectedWinners ==
    IF round.isNormalized THEN {}
    ELSE {i \in TeamIds :
            /\ TeamCircles[i] # NoCircle
            /\ TeamCircles[i].normalized = FALSE
            /\ SquaredDistance(TeamCircles[i], round.target) <= round.radius * round.radius}

C10_RevealStep ==
    (last'.op = "admin:revealArea" /\ round # NoRound)
    => /\ Len(history') = Len(history) + 1
       /\ LastEntry'.winners = ExpectedWinners

\* C10: every admin:revealArea step records exactly the expected winners.
C10_Winners == [][C10_RevealStep]_vars

\* admin:revealArea has recorded a round of radius 5 with one circle at
\* distance 5 and one farther away.
C10_Witness ==
    /\ last.op = "admin:revealArea"
    /\ Len(history) = 1
    /\ LastEntry.radius = 5
    /\ heap[LastEntry.teamCircles][1] = CircleOn
    /\ heap[LastEntry.teamCircles][2] = CircleOff
    /\ LastEntry.winners = {1}

(***************************************************************************)
(* Spec: every handler and every timer callback, in any order, in runs     *)
(* of at most MaxHandled events.                                           *)
(***************************************************************************)
Counted == handled < MaxHandled /\ handled' = handled + 1

Next ==
    \/ \E pr \in JoinPairs : PlayerJoin(pr[1], "p", pr[2]) /\ Counted
    \/ Disconnect("s1") /\ Counted
    \/ AdminSetTurn(2) /\ Counted
    \/ AdminNextTurn /\ Counted
    \/ AdminPrevTurn /\ Counted
    \/ \E s \in TwoSockets, c \in {CircleOn, CircleOff} : TeamSetCircle(s, c) /\ Counted
    \/ \E s \in TwoSockets : TeamConfirm(s) /\ Counted
    \/ \E s \in TwoSockets : TeamUnconfirm(s) /\ Counted
    \/ AdminStartRound(PixelPayload) /\ Counted
    \/ AdminNewRound(PixelPayload) /\ Counted
    \/ TimerFire /\ Counted
    \/ AdminRevealTeamCircles /\ Counted
    \/ AdminHideTeamCircles /\ Counted
    \/ AdminClearTeamCircles /\ Counted
    \/ \E autoNext \in BOOLEAN : AdminRevealArea(autoNext, 0) /\ Counted
    \/ \E k \in 1..MaxPending : ShowFullTimeout(k) /\ Counted
    \/ \E k \in 1..MaxPending : RequestNextTimeout(k) /\ Counted
    \/ AdminShowFull /\ Counted
    \/ AdminAdjustPoints(1, 1) /\ Counted
    \/ PlayerHello("s1") /\ Counted
    \/ AdminHello("s1") /\ Counted

Spec == Init /\ [][Next]_vars

RoundReplacing == {"admin:startRound", "admin:newRound"}

\* Team T is locked, and the step neither is a team:unconfirm of a player
\* of T nor replaces the round.
LockedAndKept(T) ==
    /\ round # NoRound
    /\ round.teamLocked[T]
    /\ ~(last'.op = "team:unconfirm" /\ players[last'.socket] = T)
    /\ last'.op \notin RoundReplacing

LockAndCircleKept(T) ==
    /\ round' # NoRound
    /\ round'.teamLocked[T]
    /\ TeamCircles'[T] = TeamCircles[T]

(***************************************************************************)
(* C3 as stated: once a team T is locked, every step other than a          *)
(* team:unconfirm of a player of T and a replacement of the round leaves   *)
(* teamLocked[T] and teamCircles[T] unchanged.                             *)
(***************************************************************************)
C3_OriginalStep == \A T \in TeamIds : LockedAndKept(T) => LockAndCircleKept(T)

C3_AmendedStep ==
    \A T \in TeamIds :
        (LockedAndKept(T) /\ last'.op # "admin:clearTeamCircles") => LockAndCircleKept(T)

NextBonus ==
    \/ \E pr \in JoinPairs : PlayerJoin(pr[1], "p", pr[2]) /\ UNCHANGED handled
    \/ AdminNextTurn /\ UNCHANGED handled
    \/ \E p \in {PixelPayload, NormPayload} : AdminStartRound(p) /\ round = NoRound /\ UNCHANGED handled
    \/ \E s \in TwoSockets, c \in {CircleOn, CircleOff, CircleNorm} : TeamSetCircle(s, c) /\ UNCHANGED handled
    \/ \E s \in TwoSockets : TeamConfirm(s) /\ UNCHANGED handled
    \/ AdminRevealArea(FALSE, 0) /\ Len(history') <= MaxReveals /\ UNCHANGED handled

SpecBonus == Init /\ [][NextBonus]_vars

\* Team T got the automatic bonus at its confirm (in SpecBonus points come
\* from nothing else).
AwardedBonus(T) == teams[T].points = AutoBonus

(***************************************************************************)
(* C11: when admin:revealArea has recorded the round, every locked team    *)
(* was awarded +5 at its confirm if and only if it is in the recorded      *)
(* winners, and in a normalized round it is neither awarded nor a winner.  *)
(***************************************************************************)
C11_BonusIffWinner ==
    (last.op = "admin:revealArea" /\ round # NoRound)
    => \A T \in ExistingIds :
          round.teamLocked[T]
          => /\ AwardedBonus(T) <=> T \in LastEntry.winners
             /\ round.isNormalized => (~AwardedBonus(T) /\ T \notin LastEntry.winners)

(***************************************************************************)
(* SpecRooms: two connections join and change between two teams, the turn  *)
(* moves, the admin starts one pixel round and the players set circles.    *)
(***************************************************************************)
NextRooms ==
    \/ \E s \in TwoSockets, tn \in {"a", "b"} : PlayerJoin(s, "p", tn) /\ UNCHANGED handled
    \/ Disconnect("s2") /\ UNCHANGED handled
    \/ AdminNextTurn /\ UNCHANGED handled
    \/ AdminStartRound(PixelPayload) /\ round = NoRound /\ UNCHANGED handled
    \/ \E s \in TwoSockets, c \in {CircleOn, CircleOff} : TeamSetCircle(s, c) /\ UNCHANGED handled

SpecRooms == Init /\ [][NextRooms]_vars

\* The connections an emitted event e is delivered to: all of them for
\* io.emit, the one socket for socket.emit, and for socket.to(room).emit the
\* members of the room other than the sender.
Receivers(e) ==
    IF e.to.kind = "all" THEN Sockets
    ELSE IF e.to.kind = "socket" THEN {e.to.socket}
    ELSE {x \in Sockets : e.to.room \in rooms[x] /\ x # e.to.except}

(***************************************************************************)
(* C12: a team:circlePreview caused by a player of team T is delivered     *)
(* only to connections whose current player record belongs to T, and not   *)
(* to the sender.                                                          *)
(***************************************************************************)
C12_PreviewStaysInTeam ==
    \A i \in DOMAIN outbox :
        outbox[i].ev = "team:circlePreview"
        => \A x \in Receivers(outbox[i]) :
              /\ x # last.socket
              /\ players[x] = players[last.socket]

(***************************************************************************)
(* SpecReveal: a team sets and confirms circles in a pixel round; the      *)
(* admin shows and hides the circles and reveals the area; a second        *)
(* connection, in no team, resynchronises with player:hello.               *)
(***************************************************************************)
NextReveal ==
    \/ PlayerJoin("s1", "p", "a") /\ UNCHANGED handled
    \/ AdminStartRound(PixelPayload) /\ round = NoRound /\ UNCHANGED handled
    \/ \E c \in {CircleOn, CircleOff} : TeamSetCircle("s1", c) /\ UNCHANGED handled
    \/ TeamConfirm("s1") /\ UNCHANGED handled
    \/ AdminRevealTeamCircles /\ UNCHANGED handled
    \/ AdminHideTeamCircles /\ UNCHANGED handled
    \/ AdminRevealArea(FALSE, 0) /\ Len(history') <= MaxReveals /\ UNCHANGED handled
    \/ PlayerHello("s2") /\ UNCHANGED handled

SpecReveal == Init /\ [][NextReveal]_vars

\* The circles a map of team circles holds.
CirclesOf(tc) == {tc[i] : i \in DOMAIN tc} \ {NoCircle}

\* The guess coordinates the payload of event e carries.
GuessesIn(e) ==
    IF e.ev = "team:circlePreview" THEN {e.arg}
    ELSE IF e.ev = "round:revealTeamCircles"
    THEN (IF e.arg.reveal THEN CirclesOf(e.arg.teamCircles) ELSE {})
    ELSE IF e.ev = "admin:history"
    THEN UNION {CirclesOf(e.arg.entries[k].teamCircles) : k \in DOMAIN e.arg.entries}
    ELSE {}

(***************************************************************************)
(* C13: an event sent to all connections, or to one connection on its      *)
(* hello, carries guess coordinates only if it is round:revealTeamCircles  *)
(* and revealClicks is true.                                               *)
(***************************************************************************)
C13_GuessesOnlyWhenRevealed ==
    \A i \in DOMAIN outbox :
        (outbox[i].to.kind # "room" /\ GuessesIn(outbox[i]) # {})
        => /\ outbox[i].ev = "round:revealTeamCircles"
           /\ round # NoRound
           /\ round.revealClicks

(***************************************************************************)
(* SpecTimersFair: SpecTimers with the intervals kept firing: setInterval  *)
(* calls each live callback again every 1000 ms.                           *)
(***************************************************************************)
SpecTimersFair == SpecTimers /\ WF_vars(TimerFire /\ UNCHANGED handled)

\* Round number r is the active round.
IsRound(r) == round # NoRound /\ round.rid = r

\* Within one round the phase does not go from 'dark' back to 'countdown'.
C14_DarkStaysStep ==
    (round # NoRound /\ round.phase = "dark" /\ round'.rid = round.rid)
    => round'.phase = "dark"

(***************************************************************************)
(* C14: under fair firing of the timer callbacks every installed round     *)
(* eventually has phase 'dark' or is replaced by another round, and within *)
(* one round the phase never goes from 'dark' back to 'countdown'.         *)
(***************************************************************************)
C14_CountdownEnds ==
    /\ \A r \in 1..MaxRounds : IsRound(r) ~> (~IsRound(r) \/ round.phase = "dark")
    /\ [][C14_DarkStaysStep]_vars

\* The timer of a round that replaced another has counted down to 0 and
\* set the phase to 'dark'.
C14_Witness ==
    /\ last.op = "timer"
    /\ IsRound(2)
    /\ last.arg.rid = 2
    /\ round.phase = "dark"
    /\ \E i \in DOMAIN outbox : outbox[i].ev = "round:tick" /\ outbox[i].arg.t = 0

(***************************************************************************)
(* SpecAutoNext: the admin starts and replaces rounds and reveals the area *)
(* with and without autoNext, with a missing, a negative, a short, a long  *)
(* and a very long delayMs; the timeouts fire.                             *)
(***************************************************************************)
Delays == {0, -1, 1000, 6000, TimeoutMax}

NextAutoNext ==
    \/ AdminStartRound(DefaultPayload) /\ UNCHANGED handled
    \/ AdminNewRound(DefaultPayload) /\ UNCHANGED handled
    \/ \E autoNext \in BOOLEAN, delayMs \in Delays : AdminRevealArea(autoNext, delayMs) /\ UNCHANGED handled
    \/ \E k \in 1..MaxPending : ShowFullTimeout(k) /\ UNCHANGED handled
    \/ \E k \in 1..MaxPending : RequestNextTimeout(k) /\ UNCHANGED handled

SpecAutoNext == Init /\ [][NextAutoNext]_vars

\* The two timeouts of a reveal that have not fired yet.
Unfired(e) == (IF e.shown THEN {} ELSE {"round:showFull"})
              \cup (IF e.requested THEN {} ELSE {"admin:requestNext"})

C15_AutoNextStep ==
    /\ (last'.op = "admin:revealArea" /\ round # NoRound)
       => IF last'.arg.autoNext
          THEN /\ Len(pending') = Len(pending) + 1
               /\ Unfired(pending'[Len(pending')]) = {"round:showFull", "admin:requestNext"}
          ELSE pending' = pending
    /\ last'.op \in RoundReplacing => pending' = pending
    /\ last'.op = "timeout:showFull"
       => \E k \in DOMAIN pending :
             /\ Unfired(pending[k]) = {"round:showFull", "admin:requestNext"}
             /\ pending' = [pending EXCEPT ![k].shown = TRUE]
    /\ last'.op = "timeout:requestNext"
       => \E k \in DOMAIN pending :
             /\ Unfired(pending[k]) = {"admin:requestNext"}
             /\ pending' = RemoveAt(pending, k)

(***************************************************************************)
(* C15: admin:revealArea with autoNext schedules round:showFull and        *)
(* admin:requestNext once each, for every delayMs round:showFull is        *)
(* broadcast before admin:requestNext, a new round cancels neither, and    *)
(* without autoNext nothing is scheduled.                                  *)
(***************************************************************************)
C15_AutoNext == [][C15_AutoNextStep]_vars

\* The step is a team handler of a player whose team may act: a round is
\* active and the team is on turn.
ActorOf(op) ==
    IF last'.op = op /\ round # NoRound /\ players[last'.socket] # 0
       /\ players[last'.socket] = turnTeamId
    THEN players[last'.socket] ELSE 0

\* The step leaves teamCircles, teamLocked, the points and the history as
\* they were.
SharedStateKept ==
    /\ round' # NoRound
    /\ TeamCircles' = TeamCircles
    /\ round'.teamLocked = round.teamLocked
    /\ Points' = Points
    /\ history' = history

EventsSent(out) == {out[i].ev : i \in DOMAIN out}

C16_ViolationStep ==
    /\ (ActorOf("team:confirm") # 0 /\ TeamCircles[ActorOf("team:confirm")] = NoCircle)
       => SharedStateKept
    /\ (ActorOf("team:confirm") # 0 /\ round.teamLocked[ActorOf("team:confirm")])
       => /\ SharedStateKept
          /\ EventsSent(outbox') \cap {"admin:teamLocked", "score:autoBonus", "state"} = {}
    /\ (ActorOf("team:setCircle") # 0 /\ round.teamLocked[ActorOf("team:setCircle")])
       => SharedStateKept

(***************************************************************************)
(* C16: a team:confirm of the turn team without a circle, a team:confirm   *)
(* of an already locked team (no second lock event, no further +5) and a   *)
(* team:setCircle of a locked team leave teamCircles, teamLocked, the      *)
(* points and the history as they were.                                    *)
(***************************************************************************)
C16_StateViolations == [][C16_ViolationStep]_vars

\* A team that was awarded +5 at its confirm has confirmed again, silently.
C16_Witness ==
    /\ last.op = "team:confirm"
    /\ round # NoRound
    /\ players[last.socket] # 0
    /\ players[last.socket] = turnTeamId
    /\ round.teamLocked[players[last.socket]]
    /\ teams[players[last.socket]].points = AutoBonus
    /\ outbox = <<>>

(***************************************************************************)
(* SpecLeave: a team of up to two players and a team of one, a pixel round *)
(* with circles set and confirmed and the area revealed, while connections *)
(* leave.                                                                  *)
(***************************************************************************)
NextLeave ==
    \/ \E pr \in JoinPairs \cup {<<"s3", "a">>} : PlayerJoin(pr[1], "p", pr[2]) /\ UNCHANGED handled
    \/ \E s \in Sockets : Disconnect(s) /\ UNCHANGED handled
    \/ AdminNextTurn /\ UNCHANGED handled
    \/ AdminStartRound(PixelPayload) /\ round = NoRound /\ UNCHANGED handled
    \/ \E s \in TwoSockets : TeamSetCircle(s, CircleOn) /\ UNCHANGED handled
    \/ \E s \in TwoSockets : TeamConfirm(s) /\ UNCHANGED handled
    \/ AdminRevealArea(FALSE, 0) /\ Len(history') <= MaxReveals /\ UNCHANGED handled

SpecLeave == Init /\ [][NextLeave]_vars

C17_DisconnectStep ==
    last'.op = "disconnect"
    => /\ players' = [x \in Sockets |-> IF x = last'.socket THEN 0 ELSE players[x]]
       /\ teams' = teams
       /\ turnTeamId' = turnTeamId
       /\ round' = round
       /\ heap' = heap
       /\ history' = history

(***************************************************************************)
(* C17: a disconnect removes only the player record of the disconnecting   *)
(* connection: the teams and their points, turnTeamId, the round with its  *)
(* teamCircles and teamLocked, and the history stay as they were.          *)
(***************************************************************************)
C17_DisconnectFrame == [][C17_DisconnectStep]_vars

\* The last player of the turn team has left after the team was locked with
\* a bonus and the round was recorded.
C17_Witness ==
    /\ last.op = "disconnect"
    /\ round # NoRound
    /\ turnTeamId # 0
    /\ PlayersOf(turnTeamId) = {}
    /\ round.teamLocked[turnTeamId]
    /\ teams[turnTeamId].points = AutoBonus
    /\ history # <<>>
    /\ \E x \in Sockets : players[x] # 0

(***************************************************************************)
(* C18: turnTeamId is null exactly when no team exists and otherwise is    *)
(* the id of an existing team; so a turn team is set whenever a player is  *)
(* registered.                                                             *)
(***************************************************************************)
C18_TurnIsATeam ==
    /\ turnTeamId = 0 <=> teams = <<>>
    /\ turnTeamId # 0 => turnTeamId \in ExistingIds
    /\ \A s \in Sockets : players[s] # 0 => turnTeamId # 0

(***************************************************************************)
(* SpecOneRound: two teams set, confirm and unconfirm circles in the one   *)
(* pixel round of the run; the points come from the automatic bonus only.  *)
(***************************************************************************)
NextOneRound ==
    \/ \E pr \in JoinPairs : PlayerJoin(pr[1], "p", pr[2]) /\ UNCHANGED handled
    \/ AdminNextTurn /\ UNCHANGED handled
    \/ AdminStartRound(PixelPayload) /\ round = NoRound /\ UNCHANGED handled
    \/ \E s \in TwoSockets, c \in {CircleOn, CircleOff} : TeamSetCircle(s, c) /\ UNCHANGED handled
    \/ \E s \in TwoSockets : TeamConfirm(s) /\ UNCHANGED handled
    \/ \E s \in TwoSockets : TeamUnconfirm(s) /\ UNCHANGED handled

SpecOneRound == Init /\ [][NextOneRound]_vars

(***************************************************************************)
(* C19: within one round the automatic bonuses of a team add up to at most *)
(* 5 points.                                                               *)
(***************************************************************************)
C19_BonusOnce == \A T \in ExistingIds : teams[T].points <= AutoBonus

(***************************************************************************)
(* C20: no two entries of the history stem from the same round.            *)
(***************************************************************************)
C20_RecordedOnce ==
    \A i, j \in DOMAIN history : history[i].rid = history[j].rid => i = j

====
